---- MODULE Spec2Model ----
(***************************************************************************)
(* Model of the mtg MTPROTO proxy: the accept loop and the per-connection  *)
(* supervisor of package proxy (Server.Serve, Server.accept,               *)
(* Server.getClientStream, Server.getTelegramStream, Server.pump,          *)
(* NewServer) and the configuration constructor of package config          *)
(* (NewConfig, Config.UseMiddleProxy).                                     *)
(***************************************************************************)
EXTENDS Integers, Sequences, FiniteSets, TLC

(***************************************************************************)
(* Bounds of the model.                                                    *)
(***************************************************************************)
\* Connections the listening socket hands out before the model stops accepting.
MaxConns == 2
\* accept() errors the model lets the listening socket report.
MaxAcceptErrs == 1
\* Connections handed out in the runs checked for liveness.
MaxLiveConns == 1

\* Leading "d" characters put in front of a generated secret string.
MaxPrefixDs == 4
\* Longest generated body of a secret string (after the leading "d"s).
MaxBodyLen == 34
\* Longest generated ad-tag string.
MaxAdTagLen == 34

\* Longest payload the client sends through the pumped connection.
MaxBytes == 3
\* Most bytes s.tg.Init reads from, and writes to, the upstream connection.
MaxHandshake == 1

Conns == 1..MaxConns
\* The two pump goroutines of a connection, named as in the s.pump calls.
Dirs == {"client", "telegram"}

VARIABLES
    servePc,      \* Server.Serve: "start", "listening", "returned"
    crashed,      \* the process was aborted by a panic no goroutine recovered
    acceptErrs,   \* accept() errors logged by Serve so far
    nAccepted,    \* connections handed to "go s.accept(conn)" so far
    pc,           \* pc[c]: position of the supervisor goroutine s.accept(conn)
    defers,       \* defers[c]: stream Close calls deferred so far by the supervisor
    panicking,    \* panicking[c]: the supervisor is unwinding a panic
    recovered,    \* recovered[c]: recover() returned a non-nil value
    ctx,          \* ctx[c]: "none", "active" or "done" (the connection context)
    pump,         \* pump[c][d]: "none", "read", "write", "ioerr", "cancelled", "panicked"
    wg,           \* wg[c]: counter of the sync.WaitGroup "wait"
    connCloses,   \* connCloses[c]: Close calls that reached the raw client socket
    tgDialed,     \* tgDialed[c]: s.tg.Dial returned an upstream connection
    tgCloses,     \* tgCloses[c]: Close calls that reached the upstream connection
    openConns,    \* Stats: the open-connections counter
    newCalls,     \* newCalls[c]: calls of s.stats.newConnection() by connection c
    closeCalls,   \* closeCalls[c]: calls of s.stats.closeConnection() by connection c
    cfgPc,        \* configuration pipeline: "input", "config", "server", "failed"
    args,         \* the arguments given to NewConfig
    conf,         \* the Config returned by NewConfig
    server,       \* the Server returned by NewServer
    loopPc,       \* loopPc[d]: position of pump goroutine d in its for loop
    buf,          \* buf[d]: the bytes returned by utils.ReadCurrentData in s.pump
    avail,        \* avail[d]: bytes the source of direction d still has to give
    payload,      \* the bytes the client sends
    rd,           \* rd[d]: the bytes read from the source of direction d so far
    wr,           \* wr[d]: the bytes written to the destination of direction d so far
    rewritten,    \* rewritten[d]: for each write, whether the ack rewrite was applied
    endedBy,      \* endedBy[d]: why the loop of direction d returned
    dataCtx,      \* the connection context of the pumped connection
    connOpts,     \* the *mtproto.ConnectionOpts shared by the two pump goroutines
    writers,      \* writers[f]: the pump goroutines that have written field f of connOpts
    incoming,     \* Stats: bytes given to addIncomingTraffic
    outgoing,     \* Stats: bytes given to addOutgoingTraffic
    hsRead,       \* bytes s.tg.Init read from the upstream connection
    hsWritten,    \* bytes s.tg.Init wrote to the upstream connection
    initPc,       \* position in client.DirectInit and in the caller's error path
    socket,       \* the raw client socket: peer, read deadline (<<>>: none), calls on it
    frame,        \* what the peer sends as its handshake frame
    initRet       \* the values returned by DirectInit

srvVars == <<servePc, crashed, acceptErrs, nAccepted, pc, defers, panicking,
             recovered, ctx, pump, wg, connCloses, tgDialed, tgCloses,
             openConns, newCalls, closeCalls>>
cfgVars == <<cfgPc, args, conf, server>>
pumpVars == <<loopPc, buf, avail, payload, rd, wr, rewritten, endedBy, dataCtx,
              connOpts, writers, incoming, outgoing, hsRead, hsWritten>>
initVars == <<initPc, socket, frame, initRet>>
dataVars == <<pumpVars, initVars>>
vars == <<srvVars, cfgVars, dataVars>>

(***************************************************************************)
(* The connection context and the CtxRWC wrapper (package wrappers).       *)
(***************************************************************************)
\* context.WithCancel's CancelFunc: marks the context done; idempotent.
Cancel(c) == [ctx EXCEPT ![c] = "done"]

\* <-ctx.Done() is readable.
CtxIsDone(c) == ctx[c] = "done"

\* wrappers.CtxRWC Read/Write: fails with "cancelled" once the context is done,
\* also when the call is already blocked in the stream.
CtxRWCCancelled(c) == CtxIsDone(c)

\* wrappers.CtxRWC Read/Write on a stream error: the error cancels the context
\* (either side's error cancels the other) and is returned unchanged.
CtxRWCOnError(c) == Cancel(c)

\* wrappers.CtxRWC Close: cancels the context and closes the wrapped stream.
CtxRWCOnClose(c) == Cancel(c)

(***************************************************************************)
(* Stats sink.                                                             *)
(***************************************************************************)
\* Stats.newConnection
newConnection(n) == n + 1

\* Stats.closeConnection
closeConnection(n) == n - 1

(***************************************************************************)
(* Server.Serve                                                            *)
(***************************************************************************)
\* net.Listen succeeded: Serve enters the for loop.
ListenOk ==
    /\ ~crashed
    /\ servePc = "start"
    /\ servePc' = "listening"
    /\ UNCHANGED <<crashed, acceptErrs, nAccepted, pc, defers, panicking,
                   recovered, ctx, pump, wg, connCloses, tgDialed, tgCloses,
                   openConns, newCalls, closeCalls, cfgVars, dataVars>>

\* net.Listen failed: Serve returns the annotated error.
ListenFail ==
    /\ ~crashed
    /\ servePc = "start"
    /\ servePc' = "returned"
    /\ UNCHANGED <<crashed, acceptErrs, nAccepted, pc, defers, panicking,
                   recovered, ctx, pump, wg, connCloses, tgDialed, tgCloses,
                   openConns, newCalls, closeCalls, cfgVars, dataVars>>

\* Mutant of AcceptErr: Serve returns the accept error instead of looping.
AcceptErr_Return ==
    /\ ~crashed
    /\ servePc = "listening"
    /\ acceptErrs < MaxAcceptErrs
    /\ acceptErrs' = acceptErrs + 1
    /\ servePc' = "returned"
    /\ UNCHANGED <<crashed, nAccepted, pc, defers, panicking,
                   recovered, ctx, pump, wg, connCloses, tgDialed, tgCloses,
                   openConns, newCalls, closeCalls, cfgVars, dataVars>>

\* lsock.Accept() returned an error: warn, next iteration of the loop.
AcceptErr ==
    /\ ~crashed
    /\ servePc = "listening"
    /\ acceptErrs < MaxAcceptErrs
    /\ acceptErrs' = acceptErrs + 1
    /\ servePc' = "listening"
    /\ UNCHANGED <<crashed, nAccepted, pc, defers, panicking,
                   recovered, ctx, pump, wg, connCloses, tgDialed, tgCloses,
                   openConns, newCalls, closeCalls, cfgVars, dataVars>>

\* lsock.Accept() returned a connection: go s.accept(conn), next iteration.
\* The listening socket hands out at most limit connections.
AcceptConn(limit) ==
    /\ ~crashed
    /\ servePc = "listening"
    /\ nAccepted < limit
    /\ nAccepted' = nAccepted + 1
    /\ pc' = [pc EXCEPT ![nAccepted + 1] = "Accepted"]
    /\ servePc' = "listening"
    /\ UNCHANGED <<crashed, acceptErrs, defers, panicking,
                   recovered, ctx, pump, wg, connCloses, tgDialed, tgCloses,
                   openConns, newCalls, closeCalls, cfgVars, dataVars>>

AcceptOk == AcceptConn(MaxConns)

(***************************************************************************)
(* Server.accept: the supervisor goroutine of one connection.              *)
(***************************************************************************)
\* Where a return or a panic of s.accept goes first: the deferred calls run
\* last-registered first, the deferred func of lines 47-54 last.
Unwind(ds) ==
    IF "tgConn" \in ds THEN "CloseTg"
    ELSE IF "clientConn" \in ds THEN "CloseClient"
    ELSE "StatsClose"

\* Lines 47-63: register the deferred func, count the connection, make the
\* context and the socket id.
AcceptStart(c) ==
    /\ ~crashed
    /\ pc[c] = "Accepted"
    /\ openConns' = newConnection(openConns)
    /\ newCalls' = [newCalls EXCEPT ![c] = @ + 1]
    /\ ctx' = [ctx EXCEPT ![c] = "active"]
    /\ pc' = [pc EXCEPT ![c] = "ClientHandshaking"]
    /\ UNCHANGED <<servePc, crashed, acceptErrs, nAccepted, defers, panicking,
                   recovered, pump, wg, connCloses, tgDialed, tgCloses,
                   closeCalls, cfgVars, dataVars>>

\* getClientStream succeeded: s.clientInit returned a stream, wrapped in the
\* traffic, log and context wrappers; defer clientConn.Close().
ClientInitOk(c) ==
    /\ ~crashed
    /\ pc[c] = "ClientHandshaking"
    /\ defers' = [defers EXCEPT ![c] = @ \cup {"clientConn"}]
    /\ pc' = [pc EXCEPT ![c] = "TelegramDialing"]
    /\ UNCHANGED <<servePc, crashed, acceptErrs, nAccepted, panicking,
                   recovered, ctx, pump, wg, connCloses, tgDialed, tgCloses,
                   openConns, newCalls, closeCalls, cfgVars, dataVars>>

\* Mutant of ClientInitErr: the error is logged but s.accept does not return
\* and goes on to dial Telegram.
ClientInitErr_NoReturn(c) ==
    /\ ~crashed
    /\ pc[c] = "ClientHandshaking"
    /\ pc' = [pc EXCEPT ![c] = "TelegramDialing"]
    /\ UNCHANGED <<servePc, crashed, acceptErrs, nAccepted, defers, panicking,
                   recovered, ctx, pump, wg, connCloses, tgDialed, tgCloses,
                   openConns, newCalls, closeCalls, cfgVars, dataVars>>

\* getClientStream failed: s.clientInit returned an error before any wrapper
\* was built; s.accept warns and returns.
ClientInitErr(c) ==
    /\ ~crashed
    /\ pc[c] = "ClientHandshaking"
    /\ pc' = [pc EXCEPT ![c] = Unwind(defers[c])]
    /\ UNCHANGED <<servePc, crashed, acceptErrs, nAccepted, defers, panicking,
                   recovered, ctx, pump, wg, connCloses, tgDialed, tgCloses,
                   openConns, newCalls, closeCalls, cfgVars, dataVars>>

\* A panic raised in the supervisor goroutine while it sets the connection
\* up: the deferred calls registered so far run, the last one recovers.
SupervisorPanic(c) ==
    /\ ~crashed
    /\ pc[c] \in {"ClientHandshaking", "TelegramDialing", "TelegramInit"}
    /\ panicking' = [panicking EXCEPT ![c] = TRUE]
    /\ pc' = [pc EXCEPT ![c] = Unwind(defers[c])]
    /\ UNCHANGED <<servePc, crashed, acceptErrs, nAccepted, defers,
                   recovered, ctx, pump, wg, connCloses, tgDialed, tgCloses,
                   openConns, newCalls, closeCalls, cfgVars, dataVars>>

\* getTelegramStream: s.tg.Dial returned an upstream connection.
TgDialOk(c) ==
    /\ ~crashed
    /\ pc[c] = "TelegramDialing"
    /\ tgDialed' = [tgDialed EXCEPT ![c] = TRUE]
    /\ pc' = [pc EXCEPT ![c] = "TelegramInit"]
    /\ UNCHANGED <<servePc, crashed, acceptErrs, nAccepted, defers, panicking,
                   recovered, ctx, pump, wg, connCloses, tgCloses,
                   openConns, newCalls, closeCalls, cfgVars, dataVars>>

\* getTelegramStream: s.tg.Dial failed; s.accept warns and returns.
TgDialErr(c) ==
    /\ ~crashed
    /\ pc[c] = "TelegramDialing"
    /\ pc' = [pc EXCEPT ![c] = Unwind(defers[c])]
    /\ UNCHANGED <<servePc, crashed, acceptErrs, nAccepted, defers, panicking,
                   recovered, ctx, pump, wg, connCloses, tgDialed, tgCloses,
                   openConns, newCalls, closeCalls, cfgVars, dataVars>>

\* getTelegramStream: s.tg.Init failed on the dialed connection; the function
\* returns (nil, err) and s.accept warns and returns.
TgInitErr(c) ==
    /\ ~crashed
    /\ pc[c] = "TelegramInit"
    /\ pc' = [pc EXCEPT ![c] = Unwind(defers[c])]
    /\ UNCHANGED <<servePc, crashed, acceptErrs, nAccepted, defers, panicking,
                   recovered, ctx, pump, wg, connCloses, tgDialed, tgCloses,
                   openConns, newCalls, closeCalls, cfgVars, dataVars>>

\* Mutant of WaitAdd: the supervisor counts itself in the WaitGroup.
WaitAdd_Extra == 2 + 1

\* Line 87: wait.Add(2)
WaitAdd == 2

\* getTelegramStream succeeded; defer tgConn.Close(); wait.Add(2); both pump
\* goroutines are started; the supervisor blocks on <-ctx.Done().
TgInitOk(c) ==
    /\ ~crashed
    /\ pc[c] = "TelegramInit"
    /\ defers' = [defers EXCEPT ![c] = @ \cup {"tgConn"}]
    /\ wg' = [wg EXCEPT ![c] = WaitAdd]
    /\ pump' = [pump EXCEPT ![c] = [d \in Dirs |-> "read"]]
    /\ pc' = [pc EXCEPT ![c] = "WaitCtx"]
    /\ UNCHANGED <<servePc, crashed, acceptErrs, nAccepted, panicking,
                   recovered, ctx, connCloses, tgDialed, tgCloses,
                   openConns, newCalls, closeCalls, cfgVars, dataVars>>

\* Line 116: <-ctx.Done() returns.
CtxDone(c) ==
    /\ ~crashed
    /\ pc[c] = "WaitCtx"
    /\ CtxIsDone(c)
    /\ pc' = [pc EXCEPT ![c] = "WaitGroup"]
    /\ UNCHANGED <<servePc, crashed, acceptErrs, nAccepted, defers, panicking,
                   recovered, ctx, pump, wg, connCloses, tgDialed, tgCloses,
                   openConns, newCalls, closeCalls, cfgVars, dataVars>>

\* Mutant of WaitReturn: s.accept returns once the context is done, without
\* wait.Wait().
WaitReturn_NoWait(c) ==
    /\ ~crashed
    /\ pc[c] = "WaitGroup"
    /\ pc' = [pc EXCEPT ![c] = Unwind(defers[c])]
    /\ UNCHANGED <<servePc, crashed, acceptErrs, nAccepted, defers, panicking,
                   recovered, ctx, pump, wg, connCloses, tgDialed, tgCloses,
                   openConns, newCalls, closeCalls, cfgVars, dataVars>>

\* Lines 117-123: wait.Wait() returns, s.accept logs and returns.
WaitReturn(c) ==
    /\ ~crashed
    /\ pc[c] = "WaitGroup"
    /\ wg[c] = 0
    /\ pc' = [pc EXCEPT ![c] = Unwind(defers[c])]
    /\ UNCHANGED <<servePc, crashed, acceptErrs, nAccepted, defers, panicking,
                   recovered, ctx, pump, wg, connCloses, tgDialed, tgCloses,
                   openConns, newCalls, closeCalls, cfgVars, dataVars>>

\* Line 84, deferred: tgConn.Close().
CloseTgConn(c) ==
    /\ ~crashed
    /\ pc[c] = "CloseTg"
    /\ ctx' = CtxRWCOnClose(c)
    /\ tgCloses' = [tgCloses EXCEPT ![c] = @ + 1]
    /\ pc' = [pc EXCEPT ![c] = Unwind(defers[c] \ {"tgConn"})]
    /\ UNCHANGED <<servePc, crashed, acceptErrs, nAccepted, defers, panicking,
                   recovered, pump, wg, connCloses, tgDialed,
                   openConns, newCalls, closeCalls, cfgVars, dataVars>>

\* Line 74, deferred: clientConn.Close(); the wrappers pass the Close down to
\* the raw socket.
CloseClientConn(c) ==
    /\ ~crashed
    /\ pc[c] = "CloseClient"
    /\ ctx' = CtxRWCOnClose(c)
    /\ connCloses' = [connCloses EXCEPT ![c] = @ + 1]
    /\ pc' = [pc EXCEPT ![c] = "StatsClose"]
    /\ UNCHANGED <<servePc, crashed, acceptErrs, nAccepted, defers, panicking,
                   recovered, pump, wg, tgDialed, tgCloses,
                   openConns, newCalls, closeCalls, cfgVars, dataVars>>

\* Mutant of StatsCloseConnection: a panicking supervisor skips the decrement.
StatsCloseConnection_SkipOnPanic(c) ==
    /\ ~crashed
    /\ pc[c] = "StatsClose"
    /\ openConns' = IF panicking[c] THEN openConns ELSE closeConnection(openConns)
    /\ closeCalls' = [closeCalls EXCEPT ![c] = IF panicking[c] THEN @ ELSE @ + 1]
    /\ pc' = [pc EXCEPT ![c] = "ConnClose"]
    /\ UNCHANGED <<servePc, crashed, acceptErrs, nAccepted, defers, panicking,
                   recovered, ctx, pump, wg, connCloses, tgDialed, tgCloses,
                   newCalls, cfgVars, dataVars>>

\* Line 48, in the deferred func: s.stats.closeConnection().
StatsCloseConnection(c) ==
    /\ ~crashed
    /\ pc[c] = "StatsClose"
    /\ openConns' = closeConnection(openConns)
    /\ closeCalls' = [closeCalls EXCEPT ![c] = @ + 1]
    /\ pc' = [pc EXCEPT ![c] = "ConnClose"]
    /\ UNCHANGED <<servePc, crashed, acceptErrs, nAccepted, defers, panicking,
                   recovered, ctx, pump, wg, connCloses, tgDialed, tgCloses,
                   newCalls, cfgVars, dataVars>>

\* Lines 49-53, in the deferred func: conn.Close(), then recover() swallows a
\* panic of the supervisor; the goroutine ends.
ConnCloseRecover(c) ==
    /\ ~crashed
    /\ pc[c] = "ConnClose"
    /\ connCloses' = [connCloses EXCEPT ![c] = @ + 1]
    /\ recovered' = [recovered EXCEPT ![c] = panicking[c]]
    /\ panicking' = [panicking EXCEPT ![c] = FALSE]
    /\ pc' = [pc EXCEPT ![c] = "Closed"]
    /\ UNCHANGED <<servePc, crashed, acceptErrs, nAccepted, defers,
                   ctx, pump, wg, tgDialed, tgCloses,
                   openConns, newCalls, closeCalls, cfgVars, dataVars>>

(***************************************************************************)
(* The pump goroutines (lines 89-114) and Server.pump.                     *)
(***************************************************************************)
\* Mutant of WaitDone: the goroutine returns without wait.Done().
WaitDone_Forgotten(n) == n

\* defer wait.Done()
WaitDone(n) == n - 1

\* The goroutine of direction d leaves its loop: s.pump returned the error e
\* ("ioerr" from the stream, "cancelled" from the context wrapper), the
\* goroutine logs it and returns, the deferred wait.Done() runs.
GoroutineReturn(c, d, e) ==
    /\ pump' = [pump EXCEPT ![c][d] = e]
    /\ wg' = [wg EXCEPT ![c] = WaitDone(@)]

\* The pump goroutine of direction d has returned.
PumpReturned(c, d) == pump[c][d] \in {"ioerr", "cancelled"}

\* s.pump: utils.ReadCurrentData(src) returned data.
PumpReadOk(c, d) ==
    /\ ~crashed
    /\ pump[c][d] = "read"
    /\ ~CtxRWCCancelled(c)
    /\ pump' = [pump EXCEPT ![c][d] = "write"]
    /\ UNCHANGED <<servePc, crashed, acceptErrs, nAccepted, pc, defers, panicking,
                   recovered, ctx, wg, connCloses, tgDialed, tgCloses,
                   openConns, newCalls, closeCalls, cfgVars, dataVars>>

\* s.pump: utils.ReadCurrentData(src) failed on the stream (EOF, reset).
PumpReadErr(c, d) ==
    /\ ~crashed
    /\ pump[c][d] = "read"
    /\ ~CtxRWCCancelled(c)
    /\ ctx' = CtxRWCOnError(c)
    /\ GoroutineReturn(c, d, "ioerr")
    /\ UNCHANGED <<servePc, crashed, acceptErrs, nAccepted, pc, defers, panicking,
                   recovered, connCloses, tgDialed, tgCloses,
                   openConns, newCalls, closeCalls, cfgVars, dataVars>>

\* s.pump: dst.Write(buf) succeeded; the loop starts its next iteration.
PumpWriteOk(c, d) ==
    /\ ~crashed
    /\ pump[c][d] = "write"
    /\ ~CtxRWCCancelled(c)
    /\ pump' = [pump EXCEPT ![c][d] = "read"]
    /\ UNCHANGED <<servePc, crashed, acceptErrs, nAccepted, pc, defers, panicking,
                   recovered, ctx, wg, connCloses, tgDialed, tgCloses,
                   openConns, newCalls, closeCalls, cfgVars, dataVars>>

\* s.pump: dst.Write(buf) failed on the stream.
PumpWriteErr(c, d) ==
    /\ ~crashed
    /\ pump[c][d] = "write"
    /\ ~CtxRWCCancelled(c)
    /\ ctx' = CtxRWCOnError(c)
    /\ GoroutineReturn(c, d, "ioerr")
    /\ UNCHANGED <<servePc, crashed, acceptErrs, nAccepted, pc, defers, panicking,
                   recovered, connCloses, tgDialed, tgCloses,
                   openConns, newCalls, closeCalls, cfgVars, dataVars>>

\* s.pump: the read or the write returns "cancelled" because the connection
\* context is done.
PumpCancelled(c, d) ==
    /\ ~crashed
    /\ pump[c][d] \in {"read", "write"}
    /\ CtxRWCCancelled(c)
    /\ GoroutineReturn(c, d, "cancelled")
    /\ UNCHANGED <<servePc, crashed, acceptErrs, nAccepted, pc, defers, panicking,
                   recovered, ctx, connCloses, tgDialed, tgCloses,
                   openConns, newCalls, closeCalls, cfgVars, dataVars>>

\* A panic raised in a pump goroutine: the goroutine has no recover(), so the
\* Go runtime aborts the whole process.
PumpPanic(c, d) ==
    /\ ~crashed
    /\ pump[c][d] \in {"read", "write"}
    /\ pump' = [pump EXCEPT ![c][d] = "panicked"]
    /\ crashed' = TRUE
    /\ UNCHANGED <<servePc, acceptErrs, nAccepted, pc, defers, panicking,
                   recovered, ctx, wg, connCloses, tgDialed, tgCloses,
                   openConns, newCalls, closeCalls, cfgVars, dataVars>>

(***************************************************************************)
(* The proxy: initial state and next-state relation.                       *)
(***************************************************************************)
SrvInit ==
    /\ servePc = "start"
    /\ crashed = FALSE
    /\ acceptErrs = 0
    /\ nAccepted = 0
    /\ pc = [c \in Conns |-> "idle"]
    /\ defers = [c \in Conns |-> {}]
    /\ panicking = [c \in Conns |-> FALSE]
    /\ recovered = [c \in Conns |-> FALSE]
    /\ ctx = [c \in Conns |-> "none"]
    /\ pump = [c \in Conns |-> [d \in Dirs |-> "none"]]
    /\ wg = [c \in Conns |-> 0]
    /\ connCloses = [c \in Conns |-> 0]
    /\ tgDialed = [c \in Conns |-> FALSE]
    /\ tgCloses = [c \in Conns |-> 0]
    /\ openConns = 0
    /\ newCalls = [c \in Conns |-> 0]
    /\ closeCalls = [c \in Conns |-> 0]

CfgIdle ==
    /\ cfgPc = "idle"
    /\ args = <<>>
    /\ conf = <<>>
    /\ server = <<>>

\* No connection is being followed byte by byte.
PumpIdle ==
    /\ loopPc = <<>>
    /\ buf = <<>>
    /\ avail = <<>>
    /\ payload = <<>>
    /\ rd = <<>>
    /\ wr = <<>>
    /\ rewritten = <<>>
    /\ endedBy = <<>>
    /\ dataCtx = "none"
    /\ connOpts = <<>>
    /\ writers = <<>>
    /\ incoming = 0
    /\ outgoing = 0
    /\ hsRead = 0
    /\ hsWritten = 0

\* No client initializer is being followed step by step.
DirectIdle ==
    /\ initPc = "idle"
    /\ socket = <<>>
    /\ frame = <<>>
    /\ initRet = <<>>

Init == SrvInit /\ CfgIdle /\ PumpIdle /\ DirectIdle

Supervisor(c) ==
    \/ AcceptStart(c)
    \/ ClientInitOk(c)
    \/ ClientInitErr(c)
    \/ TgDialOk(c)
    \/ TgDialErr(c)
    \/ TgInitOk(c)
    \/ TgInitErr(c)
    \/ CtxDone(c)
    \/ WaitReturn(c)
    \/ CloseTgConn(c)
    \/ CloseClientConn(c)
    \/ StatsCloseConnection(c)
    \/ ConnCloseRecover(c)

Pump(c, d) ==
    \/ PumpReadOk(c, d)
    \/ PumpReadErr(c, d)
    \/ PumpWriteOk(c, d)
    \/ PumpWriteErr(c, d)
    \/ PumpCancelled(c, d)

Serve == ListenOk \/ ListenFail \/ AcceptErr \/ AcceptOk

Next ==
    \/ Serve
    \/ \E c \in Conns : Supervisor(c)
    \/ \E c \in Conns : SupervisorPanic(c)
    \/ \E c \in Conns, d \in Dirs : Pump(c, d)
    \/ \E c \in Conns, d \in Dirs : PumpPanic(c, d)

Spec == Init /\ [][Next]_vars

(***************************************************************************)
(* Package config: strings are sequences of one-character strings, byte    *)
(* slices are sequences of numbers 0..255, a nil net.IP is "nil".          *)
(***************************************************************************)
HexLower == <<"0", "1", "2", "3", "4", "5", "6", "7",
              "8", "9", "a", "b", "c", "d", "e", "f">>
HexUpper == <<"0", "1", "2", "3", "4", "5", "6", "7",
              "8", "9", "A", "B", "C", "D", "E", "F">>

\* encoding/hex fromHexChar: the value of a hex digit, -1 for any other byte.
fromHexChar(ch) ==
    IF \E i \in 1..16 : HexLower[i] = ch
    THEN (CHOOSE i \in 1..16 : HexLower[i] = ch) - 1
    ELSE IF \E i \in 1..16 : HexUpper[i] = ch
    THEN (CHOOSE i \in 1..16 : HexUpper[i] = ch) - 1
    ELSE -1

\* encoding/hex DecodeString: an error for an odd length or a byte that is no
\* hex digit, else one byte for every two digits.
DecodeString(str) ==
    IF \E i \in 1..Len(str) : fromHexChar(str[i]) < 0
    THEN [err |-> "InvalidByteError", bytes |-> <<>>]
    ELSE IF Len(str) % 2 = 1
    THEN [err |-> "ErrLength", bytes |-> <<>>]
    ELSE [err |-> "nil",
          bytes |-> [i \in 1..(Len(str) \div 2) |->
                        16 * fromHexChar(str[2 * i - 1]) + fromHexChar(str[2 * i])]]

\* Mutant of TrimPrefix: strings.TrimLeft, which strips every leading "d".
RECURSIVE TrimPrefix_TrimLeft(_, _)
TrimPrefix_TrimLeft(str, prefix) ==
    IF Len(str) >= 1 /\ str[1] = prefix[1]
    THEN TrimPrefix_TrimLeft(SubSeq(str, 2, Len(str)), prefix)
    ELSE str

\* strings.TrimPrefix: str without the leading prefix, str itself if it does
\* not start with it.
TrimPrefix(str, prefix) ==
    IF Len(str) >= Len(prefix) /\ SubSeq(str, 1, Len(prefix)) = prefix
    THEN SubSeq(str, Len(prefix) + 1, Len(str))
    ELSE str

\* Line 95: the length NewConfig demands of the secret string.
SecretHexLen == 32

\* net.IP.To4: non-nil exactly for an IPv4 address.
IPv4Addrs == {"192.0.2.1", "198.51.100.7"}
IPv6Addrs == {"2001:db8::1"}
To4(ip) == IF ip \in IPv4Addrs THEN ip ELSE "nil"

\* Lines 111-118 and 123-130: a missing public address is asked from the
\* external provider (detected: an address, or "err"); a detection error
\* leaves it nil, an address of the wrong family is an error of NewConfig.
PublicIP(given, detected, wantV4) ==
    IF given # "nil" THEN [err |-> "nil", ip |-> given]
    ELSE IF detected = "err" THEN [err |-> "nil", ip |-> "nil"]
    ELSE IF wantV4 /\ To4(detected) = "nil" THEN [err |-> "not IPv4", ip |-> "nil"]
    ELSE IF ~wantV4 /\ To4(detected) # "nil" THEN [err |-> "not IPv6", ip |-> "nil"]
    ELSE [err |-> "nil", ip |-> detected]

\* Mutant of PublicPort: the public port always follows the bind port.
PublicPort_AlwaysBindPort(port, bindPort) == bindPort

\* Lines 119-121 and 131-133.
PublicPort(port, bindPort) == IF port = 0 THEN bindPort ELSE port

\* NewConfig: the error ("nil" on success) and the Config.
NewConfig(a) ==
    LET secret == TrimPrefix(a.secret, <<"d", "d">>)
        secretBytes == DecodeString(secret)
        adTagBytes == IF Len(a.adtag) # 0 THEN DecodeString(a.adtag)
                      ELSE [err |-> "nil", bytes |-> <<>>]
        ip4 == PublicIP(a.publicIPv4, a.globalIPv4, TRUE)
        ip6 == PublicIP(a.publicIPv6, a.globalIPv6, FALSE)
    IN  IF Len(secret) # SecretHexLen
        THEN [err |-> "Telegram demands secret of length 32", conf |-> <<>>]
        ELSE IF secretBytes.err # "nil"
        THEN [err |-> "Cannot create config", conf |-> <<>>]
        ELSE IF adTagBytes.err # "nil"
        THEN [err |-> "Cannot create config", conf |-> <<>>]
        ELSE IF ip4.err # "nil"
        THEN [err |-> ip4.err, conf |-> <<>>]
        ELSE IF ip6.err # "nil"
        THEN [err |-> ip6.err, conf |-> <<>>]
        ELSE [err |-> "nil",
              conf |-> [Debug |-> a.debug,
                        Verbose |-> a.verbose,
                        BindIP |-> a.bindIP,
                        BindPort |-> a.bindPort,
                        PublicIPv4 |-> ip4.ip,
                        PublicIPv4Port |-> PublicPort(a.publicIPv4Port, a.bindPort),
                        PublicIPv6 |-> ip6.ip,
                        PublicIPv6Port |-> PublicPort(a.publicIPv6Port, a.bindPort),
                        StatsIP |-> IF a.statsIP = "nil" THEN ip4.ip ELSE a.statsIP,
                        StatsPort |-> a.statsPort,
                        Secret |-> secretBytes.bytes,
                        AdTag |-> adTagBytes.bytes]]

\* Config.UseMiddleProxy
UseMiddleProxy(c) == Len(c.AdTag) > 0

\* Mutant of NewServer: the dialer is left at the direct one.
NewServer_DialerForgotten(c) ==
    [conf |-> c,
     clientInit |-> IF Len(c.AdTag) > 0 THEN "MiddleInit" ELSE "DirectInit",
     tg |-> "NewDirectTelegram"]

\* NewServer: the client initializer and the Telegram dialer of the Server.
NewServer(c) ==
    [conf |-> c,
     clientInit |-> IF Len(c.AdTag) > 0 THEN "MiddleInit" ELSE "DirectInit",
     tg |-> IF Len(c.AdTag) > 0 THEN "NewMiddleTelegram" ELSE "NewDirectTelegram"]

(***************************************************************************)
(* The arguments NewConfig is called with.                                 *)
(***************************************************************************)
Rep(ch, n) == [i \in 1..n |-> ch]

\* str with the character at position p replaced by ch (p = 0: unchanged).
Subst(str, p, ch) == [i \in 1..Len(str) |-> IF i = p THEN ch ELSE str[i]]

\* Secret strings: up to MaxPrefixDs "d"s, then a run of one character,
\* lower-case hex, upper-case hex or no hex digit, of up to MaxBodyLen
\* characters, with at most one character replaced at its start or end.
Secrets ==
    { Rep("d", k) \o Subst(Rep(f, n), IF p = "last" THEN n ELSE IF p = "first" THEN 1 ELSE 0, x) :
        k \in 0..MaxPrefixDs, n \in 0..MaxBodyLen, f \in {"a", "F", "z"},
        p \in {"none", "first", "last"}, x \in {"g", "d", "7"} }

AdTags == { Rep(f, n) : n \in 0..MaxAdTagLen, f \in {"a", "E", "z"} }

GoodSecret == Rep("a", SecretHexLen)
GoodAdTag == Rep("E", 32)

DefaultArgs ==
    [debug |-> FALSE, verbose |-> FALSE,
     bindIP |-> "192.0.2.1", bindPort |-> 3128,
     publicIPv4 |-> "198.51.100.7", publicIPv4Port |-> 443, globalIPv4 |-> "err",
     publicIPv6 |-> "2001:db8::1", publicIPv6Port |-> 0, globalIPv6 |-> "err",
     statsIP |-> "nil", statsPort |-> 3129,
     secret |-> GoodSecret, adtag |-> <<>>]

Detected == {"err", "192.0.2.1", "2001:db8::1"}
Ports == {0, 443}

\* Every secret with a few ad-tags, with valid addresses and with a detected
\* address of the wrong family.
SecretArgs ==
    { [DefaultArgs EXCEPT !.secret = s, !.adtag = t,
                          !.publicIPv4 = ip[1], !.globalIPv4 = ip[2]] :
        s \in Secrets, t \in {<<>>, GoodAdTag, <<"z", "z">>},
        ip \in {<<"198.51.100.7", "err">>, <<"nil", "2001:db8::1">>} }

\* Every ad-tag with a good and a bad secret.
AdTagArgs ==
    { [DefaultArgs EXCEPT !.secret = s, !.adtag = t] :
        s \in {GoodSecret, <<"d", "d">> \o GoodSecret, Rep("a", 31)}, t \in AdTags }

\* Every combination of the addresses and ports with a good secret.
AddrArgs ==
    { [DefaultArgs EXCEPT !.adtag = t,
                          !.publicIPv4 = g4, !.globalIPv4 = d4, !.publicIPv4Port = p4,
                          !.publicIPv6 = g6, !.globalIPv6 = d6, !.publicIPv6Port = p6,
                          !.statsIP = st] :
        t \in {<<>>, GoodAdTag},
        g4 \in {"nil", "198.51.100.7", "2001:db8::1"}, d4 \in Detected, p4 \in Ports,
        g6 \in {"nil", "198.51.100.7", "2001:db8::1"}, d6 \in Detected, p6 \in Ports,
        st \in {"nil", "192.0.2.1"} }

Args == SecretArgs \cup AdTagArgs \cup AddrArgs

(***************************************************************************)
(* Start-up: NewConfig on the command-line arguments, then NewServer.      *)
(***************************************************************************)
CallNewConfig ==
    /\ cfgPc = "input"
    /\ LET r == NewConfig(args)
       IN  /\ conf' = r.conf
           /\ cfgPc' = IF r.err = "nil" THEN "config" ELSE "failed"
    /\ UNCHANGED <<args, server, srvVars, dataVars>>

CallNewServer ==
    /\ cfgPc = "config"
    /\ server' = NewServer(conf)
    /\ cfgPc' = "server"
    /\ UNCHANGED <<args, conf, srvVars, dataVars>>

CfgInit ==
    /\ SrvInit
    /\ PumpIdle
    /\ DirectIdle
    /\ cfgPc = "input"
    /\ args \in Args
    /\ conf = <<>>
    /\ server = <<>>

CfgNext == CallNewConfig \/ CallNewServer

CfgSpec == CfgInit /\ [][CfgNext]_vars

(***************************************************************************)
(* C8: UseMiddleProxy() is true iff the configured AdTag is non-empty, and *)
(* NewServer picks a matching pair: MiddleInit with the middle dialer iff  *)
(* the AdTag is non-empty, DirectInit with the direct dialer otherwise.    *)
(***************************************************************************)
C8_ModeSelection ==
    cfgPc = "server" =>
        /\ UseMiddleProxy(server.conf) <=> (args.adtag # <<>>)
        /\ UseMiddleProxy(server.conf) <=> (server.conf.AdTag # <<>>)
        /\ UseMiddleProxy(server.conf) =>
                server.clientInit = "MiddleInit" /\ server.tg = "NewMiddleTelegram"
        /\ ~UseMiddleProxy(server.conf) =>
                server.clientInit = "DirectInit" /\ server.tg = "NewDirectTelegram"

\* A server built from a Config with an ad-tag: the middle pair.
C8_Witness ==
    /\ cfgPc = "server"
    /\ args.adtag = GoodAdTag
    /\ server.clientInit = "MiddleInit"
    /\ server.tg = "NewMiddleTelegram"

(***************************************************************************)
(* C9: With all other arguments valid, NewConfig succeeds iff the secret   *)
(* with one leading "dd" stripped is exactly 32 hex digits of either case; *)
(* the decoded Secret then has exactly 16 bytes.  "", "dd", "dd" followed  *)
(* by 31 hex digits and "zz" repeated 16 times all fail.                   *)
(***************************************************************************)
HexDigits == {"0", "1", "2", "3", "4", "5", "6", "7", "8", "9",
              "a", "b", "c", "d", "e", "f", "A", "B", "C", "D", "E", "F"}

IsHex(str) == \A i \in 1..Len(str) : str[i] \in HexDigits

\* The secret without one leading "dd".
Stripped(str) ==
    IF Len(str) >= 2 /\ str[1] = "d" /\ str[2] = "d"
    THEN [i \in 1..(Len(str) - 2) |-> str[i + 2]]
    ELSE str

\* The arguments other than the secret are accepted by NewConfig.
OthersValid(a) ==
    /\ a.adtag = <<>> \/ (IsHex(a.adtag) /\ Len(a.adtag) % 2 = 0)
    /\ ~(a.publicIPv4 = "nil" /\ a.globalIPv4 \in IPv6Addrs)
    /\ ~(a.publicIPv6 = "nil" /\ a.globalIPv6 \in IPv4Addrs)

C9_SecretLaw ==
    /\ (cfgPc \in {"config", "failed"} /\ OthersValid(args)) =>
        /\ (cfgPc = "config") <=>
                (Len(Stripped(args.secret)) = 32 /\ IsHex(Stripped(args.secret)))
        /\ (cfgPc = "config") =>
                /\ Len(conf.Secret) = 16
                /\ \A i \in 1..16 : conf.Secret[i] \in 0..255
    /\ (cfgPc = "config") =>
        args.secret \notin {<<>>, <<"d", "d">>, <<"d", "d">> \o Rep("a", 31),
                            Rep("z", 32)}

\* NewConfig accepted a secret of 34 characters that starts with "dddd": one
\* "dd" was stripped, the second is part of the 32 hex digits.
C9_Witness ==
    /\ cfgPc = "config"
    /\ Len(args.secret) = 34
    /\ SubSeq(args.secret, 1, 4) = <<"d", "d", "d", "d">>
    /\ Len(conf.Secret) = 16

(***************************************************************************)
(* C10: Every Config returned by a successful NewConfig has an AdTag of    *)
(* 0 or exactly 16 bytes: an ad-tag string that is neither empty nor 32    *)
(* hex characters never yields a Config.                                   *)
(***************************************************************************)
C10_AdTagLength ==
    cfgPc = "config" =>
        /\ Len(conf.AdTag) \in {0, 16}
        /\ (args.adtag = <<>> \/ (Len(args.adtag) = 32 /\ IsHex(args.adtag)))

(***************************************************************************)
(* The running proxy under fair scheduling: every goroutine that can take  *)
(* a step eventually takes one, and a call blocked in a stream whose       *)
(* context is done eventually returns.  The steps are those of a process   *)
(* that is not aborted.                                                    *)
(***************************************************************************)
AcceptOkLive == AcceptConn(MaxLiveConns)

ServeLive == ListenOk \/ ListenFail \/ AcceptErr \/ AcceptOkLive

NextRunning ==
    \/ ServeLive
    \/ \E c \in Conns : Supervisor(c)
    \/ \E c \in Conns : SupervisorPanic(c)
    \/ \E c \in Conns, d \in Dirs : Pump(c, d)

Fairness ==
    /\ \A c \in Conns : WF_vars(Supervisor(c))
    /\ \A c \in Conns : \A d \in Dirs : WF_vars(PumpCancelled(c, d))

LiveSpec == Init /\ [][NextRunning]_vars /\ Fairness

(***************************************************************************)
(* Phases of a connection.                                                 *)
(***************************************************************************)
Closed(c) == pc[c] = "Closed"
Pumping(c) == pc[c] \in {"WaitCtx", "WaitGroup"}
\* Accepted by Serve and not yet Closed.
Open(c) == pc[c] \notin {"idle", "Closed"}
\* Between s.stats.newConnection() and s.stats.closeConnection().
Counted(c) == pc[c] \notin {"idle", "Accepted", "ConnClose", "Closed"}

(***************************************************************************)
(* C1: During Pumping, whenever the pump of one direction returns an       *)
(* error, the connection eventually leaves Pumping: the other pump         *)
(* goroutine returns too, the supervisor gets past <-ctx.Done() and        *)
(* wait.Wait() and the connection reaches Closed.                          *)
(***************************************************************************)
C1_PumpErrorLeadsToClosed ==
    \A c \in Conns : \A d \in Dirs :
        (Pumping(c) /\ PumpReturned(c, d))
            ~> (Closed(c) /\ \A e \in Dirs : PumpReturned(c, e))

\* One pump failed on its stream, the other was unblocked by the context, and
\* the connection is Closed.
C1_Witness ==
    \E c \in Conns :
        /\ Closed(c)
        /\ pump[c]["client"] = "ioerr"
        /\ pump[c]["telegram"] = "cancelled"

(***************************************************************************)
(* C2: If the connection context is cancelled while a pump goroutine is    *)
(* blocked in a read, both pump goroutines eventually return and the       *)
(* supervisor eventually reaches Closed; cancelling a context that is      *)
(* already cancelled changes nothing.                                      *)
(***************************************************************************)
C2_CancelLeadsToClosed ==
    /\ \A c \in Conns : \A d \in Dirs :
        (CtxIsDone(c) /\ pump[c][d] = "read")
            ~> (Closed(c) /\ \A e \in Dirs : PumpReturned(c, e))
    /\ [](\A c \in Conns : CtxIsDone(c) => Cancel(c) = ctx)
    /\ [][\A c \in Conns : CtxIsDone(c) => CtxIsDone(c)']_vars

\* A pump that was blocked in its read returned "cancelled" and the
\* connection is Closed.
C2_Witness ==
    \E c \in Conns :
        /\ Closed(c)
        /\ pump[c]["telegram"] = "cancelled"
        /\ pump[c]["client"] = "ioerr"
        /\ ctx[c] = "done"

(***************************************************************************)
(* C3: When a connection is Closed, every stream opened for it has been    *)
(* closed: the client socket on every path, and the upstream connection    *)
(* on every path where s.tg.Dial succeeded, also when s.tg.Init then       *)
(* failed.                                                                 *)
(***************************************************************************)
C3_AllStreamsClosed ==
    \A c \in Conns :
        Closed(c) => /\ connCloses[c] >= 1
                     /\ (tgDialed[c] => tgCloses[c] >= 1)

(***************************************************************************)
(* C4 as stated: in every reachable state the open-connections counter     *)
(* equals the number of connections that are accepted and not yet Closed,  *)
(* it is never negative, and every connection is counted and discounted    *)
(* at most once, exactly once when Closed.                                 *)
(***************************************************************************)
C4_CounterEqualsOpen ==
    /\ openConns = Cardinality({c \in Conns : Open(c)})
    /\ openConns >= 0
    /\ \A c \in Conns : /\ newCalls[c] <= 1
                        /\ closeCalls[c] <= 1
                        /\ (Closed(c) => newCalls[c] = 1 /\ closeCalls[c] = 1)

(***************************************************************************)
(* C4 amended: every connection is counted exactly once and discounted     *)
(* exactly once on every path to Closed (handshake error, dial error, end  *)
(* of pumping, supervisor panic); in every reachable state the counter     *)
(* equals the number of connections whose supervisor has called            *)
(* newConnection and not yet closeConnection, which is at most the number  *)
(* of connections accepted and not yet Closed, and is never negative.      *)
(***************************************************************************)
C4_CounterEqualsCounted ==
    /\ openConns = Cardinality({c \in Conns : Counted(c)})
    /\ openConns <= Cardinality({c \in Conns : Open(c)})
    /\ openConns >= 0
    /\ \A c \in Conns : /\ newCalls[c] = (IF pc[c] \in {"idle", "Accepted"} THEN 0 ELSE 1)
                        /\ closeCalls[c] = (IF pc[c] \in {"ConnClose", "Closed"} THEN 1 ELSE 0)

\* One connection Closed after a supervisor panic, another Closed after
\* pumping: the counter is back at zero.
C4_Witness ==
    /\ \E c \in Conns : Closed(c) /\ recovered[c]
    /\ \E c \in Conns : Closed(c) /\ \A d \in Dirs : PumpReturned(c, d)
    /\ openConns = 0

(***************************************************************************)
(* C5: On every path by which a connection reaches Closed, the connection  *)
(* context has been cancelled.                                             *)
(***************************************************************************)
C5_ClosedImpliesCancelled ==
    \A c \in Conns : Closed(c) => CtxIsDone(c)

(***************************************************************************)
(* C6: A panic raised in any goroutine of a connection (the supervisor or  *)
(* one of its pumps) is recovered within that connection: the process      *)
(* keeps running, Serve stays in its accept loop.                          *)
(***************************************************************************)
PanicRaised(c) ==
    \/ panicking[c]
    \/ recovered[c]
    \/ \E d \in Dirs : pump[c][d] = "panicked"

C6_PanicIsolated ==
    \A c \in Conns : PanicRaised(c) => (~crashed /\ servePc = "listening")

(***************************************************************************)
(* C7: Once the listening socket is bound, Serve never returns: an accept  *)
(* error leaves it at accept() again with no connection touched, a         *)
(* successful accept starts one supervisor and leaves it at accept()       *)
(* again, whatever the earlier connections are doing; Serve returns only   *)
(* when binding failed.                                                    *)
(***************************************************************************)
C7_ServeNeverReturns ==
    /\ [][servePc = "listening" => servePc' = "listening"]_vars
    /\ [][acceptErrs' # acceptErrs =>
            servePc' = "listening" /\ pc' = pc /\ nAccepted' = nAccepted]_vars
    /\ [][nAccepted' # nAccepted =>
            /\ servePc' = "listening"
            /\ nAccepted' = nAccepted + 1
            /\ pc'[nAccepted'] = "Accepted"
            /\ \A c \in Conns : c # nAccepted' => pc'[c] = pc[c]]_vars
    /\ [](servePc = "returned" => nAccepted = 0 /\ acceptErrs = 0)
    /\ []((servePc = "listening" /\ ~crashed /\ nAccepted < MaxConns)
            => ENABLED AcceptOk)

\* Serve has logged an accept error and accepted again while an earlier
\* connection is still pumping.
C7_Witness ==
    /\ servePc = "listening"
    /\ acceptErrs >= 1
    /\ \E c1 \in Conns : \E c2 \in Conns :
        c1 < c2 /\ Pumping(c1) /\ pc[c2] = "Accepted"


(***************************************************************************)
(* The phases of the connection state machine.                             *)
(***************************************************************************)
Phase(p) ==
    CASE p = "idle" -> "Idle"
      [] p = "Accepted" -> "Accepted"
      [] p = "ClientHandshaking" -> "ClientHandshaking"
      [] p \in {"TelegramDialing", "TelegramInit"} -> "TelegramDialing"
      [] p \in {"WaitCtx", "WaitGroup"} -> "Pumping"
      [] p \in {"CloseTg", "CloseClient", "StatsClose", "ConnClose"} -> "Closing"
      [] p = "Closed" -> "Closed"

\* The transitions between two different phases.
PhaseEdges ==
    { <<"Idle", "Accepted">>,
      <<"Accepted", "ClientHandshaking">>,
      <<"ClientHandshaking", "TelegramDialing">>,
      <<"ClientHandshaking", "Closing">>,
      <<"TelegramDialing", "Pumping">>,
      <<"TelegramDialing", "Closing">>,
      <<"Pumping", "Closing">>,
      <<"Closing", "Closed">> }

\* s.clientInit succeeded (clientConn.Close() is deferred right after it).
ClientInitSucceeded(c) == "clientConn" \in defers[c]
\* s.tg.Dial and s.tg.Init succeeded (tgConn.Close() is deferred right after).
TelegramSucceeded(c) == tgDialed[c] /\ "tgConn" \in defers[c]
\* A pump goroutine of the connection was started.
PumpStarted(c) == \E d \in Dirs : pump[c][d] # "none"

(***************************************************************************)
(* C14: The phases of a connection happen only in the order Accepted,      *)
(* ClientHandshaking, TelegramDialing, Pumping, Closing, Closed: the       *)
(* Telegram dialer is not invoked unless the client initializer succeeded, *)
(* the pumps are not started unless the client initializer and the         *)
(* Telegram dial and handshake succeeded, and a failure in                 *)
(* ClientHandshaking or TelegramDialing goes straight to Closing with no   *)
(* pump run.                                                               *)
(***************************************************************************)
C14_PhaseOrder ==
    /\ [][\A c \in Conns :
            Phase(pc'[c]) # Phase(pc[c]) =>
                <<Phase(pc[c]), Phase(pc'[c])>> \in PhaseEdges]_vars
    /\ [](\A c \in Conns :
            /\ (Phase(pc[c]) = "TelegramDialing" \/ tgDialed[c])
                    => ClientInitSucceeded(c)
            /\ (Phase(pc[c]) = "Pumping" \/ PumpStarted(c))
                    => (ClientInitSucceeded(c) /\ TelegramSucceeded(c))
            /\ (Phase(pc[c]) \in {"Closing", "Closed"} /\ ~TelegramSucceeded(c))
                    => ~PumpStarted(c))
    /\ [][\A c \in Conns :
            (Phase(pc[c]) \in {"ClientHandshaking", "TelegramDialing"}
                /\ Phase(pc'[c]) = "Closing")
            => (~PumpStarted(c))' /\ wg'[c] = 0]_vars

\* One connection failed in ClientHandshaking and is Closed without a dial,
\* another went through Pumping and is Closed.
C14_Witness ==
    /\ \E c \in Conns : Closed(c) /\ ~ClientInitSucceeded(c) /\ ~tgDialed[c]
    /\ \E c \in Conns : Closed(c) /\ TelegramSucceeded(c) /\ PumpStarted(c)

(***************************************************************************)
(* C18: Once pumping has started, the supervisor closes the upstream and   *)
(* client streams and decrements open-connections only after the context   *)
(* is done and both pump goroutines have returned: no pump is running when *)
(* the connection is Closed, and teardown runs in the order upstream       *)
(* stream close, client stream close, open-connections decrement, raw      *)
(* socket close.                                                           *)
(***************************************************************************)
C18_TeardownAfterPumps ==
    /\ [](\A c \in Conns :
            /\ (PumpStarted(c) /\ Phase(pc[c]) \in {"Closing", "Closed"})
                    => (CtxIsDone(c) /\ wg[c] = 0 /\ \A d \in Dirs : PumpReturned(c, d))
            /\ Closed(c) => \A d \in Dirs : pump[c][d] \notin {"read", "write"})
    /\ [][\A c \in Conns : PumpStarted(c) =>
            /\ tgCloses'[c] # tgCloses[c] =>
                    /\ CtxIsDone(c) /\ \A d \in Dirs : PumpReturned(c, d)
                    /\ tgCloses[c] = 0 /\ connCloses[c] = 0 /\ closeCalls[c] = 0
            /\ (connCloses'[c] # connCloses[c] /\ connCloses[c] = 0) =>
                    tgCloses[c] = 1 /\ closeCalls[c] = 0
            /\ closeCalls'[c] # closeCalls[c] =>
                    /\ tgCloses[c] = 1 /\ connCloses[c] = 1
                    /\ openConns' = openConns - 1
            /\ (connCloses'[c] # connCloses[c] /\ connCloses[c] >= 1) =>
                    /\ tgCloses[c] = 1 /\ closeCalls[c] = 1
                    /\ connCloses'[c] = 2 /\ Closed(c)']_vars

\* A connection that pumped is Closed: upstream closed once, the raw socket
\* reached by the client stream's Close and by conn.Close(), counted out once.
C18_Witness ==
    \E c \in Conns :
        /\ Closed(c) /\ PumpStarted(c)
        /\ tgCloses[c] = 1 /\ connCloses[c] = 2 /\ closeCalls[c] = 1


\* NewConfig was called on args and returned a Config.
ConfigReturned == cfgPc \in {"config", "server"}
\* The secret and ad-tag arguments are accepted by NewConfig.
SecretAndAdTagAccepted ==
    /\ Len(Stripped(args.secret)) = SecretHexLen /\ IsHex(Stripped(args.secret))
    /\ (Len(args.adtag) = 0 \/ (Len(args.adtag) % 2 = 0 /\ IsHex(args.adtag)))
\* Auto-detection of the address is not asked or fails.
SuppliedOrDetectionFails(given, detected) == given # "nil" \/ detected = "err"

(***************************************************************************)
(* C16: In a Config returned by NewConfig a public port given as 0 equals  *)
(* the bind port and a non-zero one is kept; a supplied public IP is kept  *)
(* unchanged whatever auto-detection would give; when auto-detection fails *)
(* the public IP stays unset and NewConfig still succeeds; a missing stats *)
(* IP equals the resulting public IPv4.                                    *)
(***************************************************************************)
C16_AddressDefaults ==
    /\ ConfigReturned =>
        /\ conf.PublicIPv4Port =
              (IF args.publicIPv4Port = 0 THEN args.bindPort ELSE args.publicIPv4Port)
        /\ conf.PublicIPv6Port =
              (IF args.publicIPv6Port = 0 THEN args.bindPort ELSE args.publicIPv6Port)
        /\ args.publicIPv4 # "nil" => conf.PublicIPv4 = args.publicIPv4
        /\ args.publicIPv6 # "nil" => conf.PublicIPv6 = args.publicIPv6
        /\ (args.publicIPv4 = "nil" /\ args.globalIPv4 = "err") => conf.PublicIPv4 = "nil"
        /\ (args.publicIPv6 = "nil" /\ args.globalIPv6 = "err") => conf.PublicIPv6 = "nil"
        /\ (args.publicIPv4 = "nil" /\ args.globalIPv4 # "err")
                => conf.PublicIPv4 = args.globalIPv4
        /\ (args.publicIPv6 = "nil" /\ args.globalIPv6 # "err")
                => conf.PublicIPv6 = args.globalIPv6
        /\ conf.StatsIP = (IF args.statsIP = "nil" THEN conf.PublicIPv4 ELSE args.statsIP)
    /\ ( /\ cfgPc # "input"
         /\ SecretAndAdTagAccepted
         /\ SuppliedOrDetectionFails(args.publicIPv4, args.globalIPv4)
         /\ SuppliedOrDetectionFails(args.publicIPv6, args.globalIPv6) )
       => ConfigReturned

\* A Config from a failed IPv4 detection, a supplied IPv6 address that the
\* provider would have answered differently, one port 0 and one non-zero.
C16_Witness ==
    /\ ConfigReturned
    /\ args.publicIPv4 = "nil" /\ args.globalIPv4 = "err" /\ conf.PublicIPv4 = "nil"
    /\ args.publicIPv6 = "2001:db8::1" /\ args.globalIPv6 = "192.0.2.1"
    /\ args.publicIPv4Port = 0 /\ conf.PublicIPv4Port = args.bindPort
    /\ args.publicIPv6Port = 443 /\ conf.PublicIPv6Port = 443
    /\ args.statsIP = "nil" /\ conf.StatsIP = "nil"

(***************************************************************************)
(* C17: In every Config returned by NewConfig, PublicIPv4 is unset or an   *)
(* IPv4 address and PublicIPv6 is unset or an IPv6 address, whether the    *)
(* address was auto-detected or supplied; an auto-detected address of the  *)
(* wrong family makes NewConfig fail.                                      *)
(***************************************************************************)
C17_FamilyEnforced ==
    /\ ConfigReturned =>
        /\ conf.PublicIPv4 \in {"nil"} \cup IPv4Addrs
        /\ conf.PublicIPv6 \in {"nil"} \cup IPv6Addrs
    /\ ( /\ cfgPc # "input"
         /\ \/ args.publicIPv4 = "nil" /\ args.globalIPv4 \in IPv6Addrs
            \/ args.publicIPv6 = "nil" /\ args.globalIPv6 \in IPv4Addrs )
       => cfgPc = "failed"


(***************************************************************************)
(* The data plane of one connection, byte by byte: s.tg.Init on the        *)
(* traffic-counted upstream connection, then the two for loops of          *)
(* s.accept, each resetting its pair of ack flags and calling s.pump.  The *)
(* client sends payload; the upstream echoes what it is sent.              *)
(***************************************************************************)
\* The client sends the bytes 1, 2, ... n: no byte occurs twice, so a byte that
\* is duplicated, skipped or out of order shows in what arrives.
Payloads == { [i \in 1..n |-> i] : n \in 0..MaxBytes }

IsPrefix(p, q) == Len(p) <= Len(q) /\ SubSeq(q, 1, Len(p)) = p

NoHacks == [QuickAck |-> FALSE, SimpleAck |-> FALSE]

\* The connection options as the client initializer returns them.
InitialOpts ==
    { [DC |-> dc, Transport |-> t, ConnectionProto |-> "Any",
       ReadHacks |-> NoHacks, WriteHacks |-> NoHacks] :
        dc \in {2, -3}, t \in {"abridged"} }

OptFields == {"DC", "Transport", "ConnectionProto", "ReadHacks", "WriteHacks"}

\* The pair of flags a pump goroutine resets: lines 93-94 and 106-107.
Side(d) == IF d = "client" THEN "ReadHacks" ELSE "WriteHacks"

\* The destination of a direction's s.pump call.
Peer(d) == IF d = "client" THEN "telegram" ELSE "client"

\* Goroutine d assigns both flags of one pair of connOpts.
SetHacks(d, side, q, s) ==
    /\ connOpts' = [connOpts EXCEPT ![side] = [QuickAck |-> q, SimpleAck |-> s]]
    /\ writers' = [writers EXCEPT ![side] = @ \cup {d}]

\* Mutant of AddIncomingTraffic: only the client stream counts what it reads.
AddIncomingTraffic_ClientOnly(d, n) == IF d = "client" THEN incoming + n ELSE incoming

\* wrappers.NewTrafficRWC(..., s.stats.addIncomingTraffic, s.stats.addOutgoingTraffic)
\* around the client stream (line 131) and around the upstream connection
\* (line 144): both streams report to the same two counters.
AddIncomingTraffic(d, n) == incoming + n
AddOutgoingTraffic(d, n) == outgoing + n

\* What the other end of the destination gets: the upstream echoes.
Delivered(d, bs) ==
    IF d = "client" THEN [avail EXCEPT !["telegram"] = @ \o bs] ELSE avail

\* Lines 144-145: s.tg.Init runs on the traffic-counted connection; what it
\* reads and writes there is counted.  Then both goroutines are started.
TgInitTraffic ==
    /\ \A d \in Dirs : loopPc[d] = "dial"
    /\ \E r \in 0..MaxHandshake, w \in 0..MaxHandshake :
        /\ hsRead' = r
        /\ hsWritten' = w
        /\ incoming' = AddIncomingTraffic("telegram", r)
        /\ outgoing' = AddOutgoingTraffic("telegram", w)
    /\ loopPc' = [d \in Dirs |-> "loop"]
    /\ UNCHANGED <<buf, avail, payload, rd, wr, rewritten, endedBy, dataCtx,
                   connOpts, writers, srvVars, cfgVars, initVars>>

\* Mutant of LoopReset: the loop calls s.pump without resetting the flags.
LoopReset_Forgotten(d) ==
    /\ loopPc[d] = "loop"
    /\ loopPc' = [loopPc EXCEPT ![d] = "read"]
    /\ UNCHANGED <<buf, avail, payload, rd, wr, rewritten, endedBy, dataCtx,
                   connOpts, writers, incoming, outgoing, hsRead, hsWritten,
                   srvVars, cfgVars, initVars>>

\* Mutant of LoopReset: both loops reset the read-side pair.
LoopReset_ReadSideOnly(d) ==
    /\ loopPc[d] = "loop"
    /\ SetHacks(d, "ReadHacks", FALSE, FALSE)
    /\ loopPc' = [loopPc EXCEPT ![d] = "read"]
    /\ UNCHANGED <<buf, avail, payload, rd, wr, rewritten, endedBy, dataCtx,
                   incoming, outgoing, hsRead, hsWritten,
                   srvVars, cfgVars, initVars>>

\* Lines 93-95 and 106-108: the top of the for loop resets the goroutine's
\* pair of flags and calls s.pump.
LoopReset(d) ==
    /\ loopPc[d] = "loop"
    /\ SetHacks(d, Side(d), FALSE, FALSE)
    /\ loopPc' = [loopPc EXCEPT ![d] = "read"]
    /\ UNCHANGED <<buf, avail, payload, rd, wr, rewritten, endedBy, dataCtx,
                   incoming, outgoing, hsRead, hsWritten,
                   srvVars, cfgVars, initVars>>

\* Line 157: utils.ReadCurrentData(src) returns the n bytes that are ready
\* (at least one); the source stream counts them, and its codec may raise
\* the ack flags of the direction for the frame it has read.
ReadCurrentDataOk(d) ==
    /\ loopPc[d] = "read"
    /\ dataCtx = "active"
    /\ \E n \in 1..Len(avail[d]), q \in BOOLEAN, s \in BOOLEAN :
        /\ buf' = [buf EXCEPT ![d] = SubSeq(avail[d], 1, n)]
        /\ avail' = [avail EXCEPT ![d] = SubSeq(@, n + 1, Len(@))]
        /\ rd' = [rd EXCEPT ![d] = @ \o SubSeq(avail[d], 1, n)]
        /\ incoming' = AddIncomingTraffic(d, n)
        /\ IF q \/ s THEN SetHacks(d, Side(d), q, s)
           ELSE UNCHANGED <<connOpts, writers>>
    /\ loopPc' = [loopPc EXCEPT ![d] = "write"]
    /\ UNCHANGED <<payload, wr, rewritten, endedBy, dataCtx, outgoing,
                   hsRead, hsWritten, srvVars, cfgVars, initVars>>

\* Lines 157-160 and 95-99: utils.ReadCurrentData(src) fails, with EOF when
\* the source has given everything and is closed, or with a stream error;
\* s.pump returns the error, the loop returns; the error cancels the context.
ReadCurrentDataErr(d) ==
    /\ loopPc[d] = "read"
    /\ dataCtx = "active"
    /\ \E e \in {"eof", "readerr"} :
        /\ e = "eof" => avail[d] = <<>>
        /\ endedBy' = [endedBy EXCEPT ![d] = e]
    /\ dataCtx' = "done"
    /\ loopPc' = [loopPc EXCEPT ![d] = "returned"]
    /\ UNCHANGED <<buf, avail, payload, rd, wr, rewritten, connOpts, writers,
                   incoming, outgoing, hsRead, hsWritten,
                   srvVars, cfgVars, initVars>>

\* Mutant of DstWriteErr: the error of a short write is dropped and the loop
\* goes on.
DstWriteErr_Continue(d) ==
    /\ loopPc[d] = "write"
    /\ dataCtx = "active"
    /\ \E k \in 0..(Len(buf[d]) - 1) :
        /\ wr' = [wr EXCEPT ![d] = @ \o SubSeq(buf[d], 1, k)]
        /\ avail' = Delivered(d, SubSeq(buf[d], 1, k))
        /\ outgoing' = AddOutgoingTraffic(Peer(d), k)
    /\ rewritten' = [rewritten EXCEPT ![d] =
            Append(@, connOpts[Side(d)].QuickAck \/ connOpts[Side(d)].SimpleAck)]
    /\ buf' = [buf EXCEPT ![d] = <<>>]
    /\ loopPc' = [loopPc EXCEPT ![d] = "loop"]
    /\ UNCHANGED <<payload, rd, endedBy, dataCtx, connOpts, writers, incoming,
                   hsRead, hsWritten, srvVars, cfgVars, initVars>>

\* Line 162: dst.Write(buf) writes all of buf; the destination stream encodes
\* it with the ack rewrite when a flag of the direction is set, and counts
\* it.  s.pump returns nil and the loop starts its next iteration.
DstWriteOk(d) ==
    /\ loopPc[d] = "write"
    /\ dataCtx = "active"
    /\ wr' = [wr EXCEPT ![d] = @ \o buf[d]]
    /\ avail' = Delivered(d, buf[d])
    /\ outgoing' = AddOutgoingTraffic(Peer(d), Len(buf[d]))
    /\ rewritten' = [rewritten EXCEPT ![d] =
            Append(@, connOpts[Side(d)].QuickAck \/ connOpts[Side(d)].SimpleAck)]
    /\ buf' = [buf EXCEPT ![d] = <<>>]
    /\ loopPc' = [loopPc EXCEPT ![d] = "loop"]
    /\ UNCHANGED <<payload, rd, endedBy, dataCtx, connOpts, writers, incoming,
                   hsRead, hsWritten, srvVars, cfgVars, initVars>>

\* Lines 162-164 and 95-99: dst.Write(buf) fails after k < len(buf) bytes;
\* s.pump drops the count and returns the error, the loop returns; the error
\* cancels the context.
DstWriteErr(d) ==
    /\ loopPc[d] = "write"
    /\ dataCtx = "active"
    /\ \E k \in 0..(Len(buf[d]) - 1) :
        /\ wr' = [wr EXCEPT ![d] = @ \o SubSeq(buf[d], 1, k)]
        /\ avail' = Delivered(d, SubSeq(buf[d], 1, k))
        /\ outgoing' = AddOutgoingTraffic(Peer(d), k)
    /\ rewritten' = [rewritten EXCEPT ![d] =
            Append(@, connOpts[Side(d)].QuickAck \/ connOpts[Side(d)].SimpleAck)]
    /\ endedBy' = [endedBy EXCEPT ![d] = "writeerr"]
    /\ dataCtx' = "done"
    /\ loopPc' = [loopPc EXCEPT ![d] = "returned"]
    /\ UNCHANGED <<buf, payload, rd, connOpts, writers, incoming,
                   hsRead, hsWritten, srvVars, cfgVars, initVars>>

\* The read or the write of s.pump returns "cancelled" because the context
\* is done; the loop returns.
DataCancelled(d) ==
    /\ loopPc[d] \in {"read", "write"}
    /\ dataCtx = "done"
    /\ endedBy' = [endedBy EXCEPT ![d] = "cancelled"]
    /\ loopPc' = [loopPc EXCEPT ![d] = "returned"]
    /\ UNCHANGED <<buf, avail, payload, rd, wr, rewritten, dataCtx, connOpts,
                   writers, incoming, outgoing, hsRead, hsWritten,
                   srvVars, cfgVars, initVars>>

PumpInit ==
    /\ SrvInit
    /\ CfgIdle
    /\ DirectIdle
    /\ payload \in Payloads
    /\ avail = [d \in Dirs |-> IF d = "client" THEN payload ELSE <<>>]
    /\ loopPc = [d \in Dirs |-> "dial"]
    /\ buf = [d \in Dirs |-> <<>>]
    /\ rd = [d \in Dirs |-> <<>>]
    /\ wr = [d \in Dirs |-> <<>>]
    /\ rewritten = [d \in Dirs |-> <<>>]
    /\ endedBy = [d \in Dirs |-> "none"]
    /\ dataCtx = "active"
    /\ connOpts \in InitialOpts
    /\ writers = [f \in OptFields |-> {}]
    /\ incoming = 0
    /\ outgoing = 0
    /\ hsRead = 0
    /\ hsWritten = 0

PumpLoop(d) ==
    \/ LoopReset(d)
    \/ ReadCurrentDataOk(d)
    \/ ReadCurrentDataErr(d)
    \/ DstWriteOk(d)
    \/ DstWriteErr(d)
    \/ DataCancelled(d)

PumpNext == TgInitTraffic \/ \E d \in Dirs : PumpLoop(d)

PumpSpec == PumpInit /\ [][PumpNext]_vars


\* A flag of the direction's pair is set.
HackSet(d) == connOpts[Side(d)].QuickAck \/ connOpts[Side(d)].SimpleAck

(***************************************************************************)
(* C11: Within one direction the bytes written to the destination by the   *)
(* repeated pump calls are always a prefix of the bytes read from the      *)
(* source, in order, unmodified, none duplicated or skipped (each pump     *)
(* call begins with everything read so far written); after the source      *)
(* reaches EOF with no write error the two sequences are equal.            *)
(***************************************************************************)
C11_WrittenIsPrefixOfRead ==
    /\ \A d \in Dirs :
        /\ IsPrefix(wr[d], rd[d])
        /\ loopPc[d] \in {"loop", "read"} => wr[d] = rd[d]
        /\ loopPc[d] = "write" => rd[d] = wr[d] \o buf[d]
        /\ endedBy[d] = "eof" => wr[d] = rd[d]
    /\ IsPrefix(rd["client"], payload)
    /\ IsPrefix(rd["telegram"], wr["client"])
    /\ endedBy["client"] = "eof" => wr["client"] = payload

\* The client direction moved a payload of two bytes or more in two pump
\* calls or more and ended with EOF.
C11_Witness ==
    /\ endedBy["client"] = "eof"
    /\ Len(payload) >= 2
    /\ wr["client"] = payload
    /\ Len(rewritten["client"]) >= 2

\* The client has got as many bytes back as it sent.
EchoDone == loopPc["client"] # "dial" /\ Len(wr["telegram"]) = Len(payload)

(***************************************************************************)
(* C12 (as stated): after a bidirectional echo of N bytes the client has   *)
(* received the same N bytes and the stats sink has                        *)
(* incoming == outgoing == N.                                              *)
(***************************************************************************)
C12_EchoCountsN ==
    EchoDone =>
        /\ wr["telegram"] = payload
        /\ incoming = Len(payload)
        /\ outgoing = Len(payload)

(***************************************************************************)
(* C12 (amended): after a bidirectional echo of N bytes the client has     *)
(* received the same N bytes; the client stream and the upstream stream    *)
(* report to the same two counters, so each counter has grown by 2N, on    *)
(* top of the bytes of the upstream handshake.                             *)
(***************************************************************************)
C12_EchoCountsBothStreams ==
    EchoDone =>
        /\ wr["telegram"] = payload
        /\ incoming = hsRead + 2 * Len(payload)
        /\ outgoing = hsWritten + 2 * Len(payload)

C12_Witness ==
    /\ EchoDone
    /\ Len(payload) >= 2
    /\ wr["telegram"] = payload
    /\ incoming = hsRead + 2 * Len(payload)

(***************************************************************************)
(* C13: In each pump iteration of a direction the ack rewrite is applied   *)
(* with the write exactly when a flag of the direction is set, and the top *)
(* of the loop resets the direction's two flags (client->telegram the      *)
(* read-side pair, telegram->client the write-side pair), so both flags    *)
(* are false whenever the direction's pump call begins.                    *)
(***************************************************************************)
C13_FlagsResetEachIteration ==
    /\ [](\A d \in Dirs : loopPc[d] = "read" => connOpts[Side(d)] = NoHacks)
    /\ [][\A d \in Dirs :
            /\ rewritten'[d] # rewritten[d] =>
                    /\ loopPc[d] = "write"
                    /\ rewritten'[d] = Append(rewritten[d], HackSet(d))
                    /\ connOpts' = connOpts
            /\ (loopPc[d] = "loop" /\ loopPc'[d] # "loop") =>
                    /\ loopPc'[d] = "read"
                    /\ connOpts'[Side(d)] = NoHacks
                    /\ connOpts'[Side(Peer(d))] = connOpts[Side(Peer(d))]]_vars

\* A pump call begins with both flags false after an iteration whose write
\* was rewritten, in each direction.
C13_Witness ==
    \A d \in Dirs :
        /\ loopPc[d] = "read"
        /\ Len(rewritten[d]) >= 1
        /\ rewritten[d][Len(rewritten[d])]
        /\ connOpts[Side(d)] = NoHacks

(***************************************************************************)
(* C19: The two pump goroutines write disjoint parts of the shared         *)
(* connection options: the client->telegram goroutine writes only the      *)
(* read-side ack flags, the telegram->client goroutine only the write-side *)
(* ack flags; DC id, transport and protocol are written by neither, and no *)
(* field is written by both.                                               *)
(***************************************************************************)
C19_DisjointWrites ==
    /\ [](/\ writers["ReadHacks"] \subseteq {"client"}
          /\ writers["WriteHacks"] \subseteq {"telegram"}
          /\ \A f \in {"DC", "Transport", "ConnectionProto"} : writers[f] = {}
          /\ \A f \in OptFields : Cardinality(writers[f]) <= 1)
    /\ [][/\ connOpts'.DC = connOpts.DC
          /\ connOpts'.Transport = connOpts.Transport
          /\ connOpts'.ConnectionProto = connOpts.ConnectionProto
          /\ \A d \in Dirs :
                loopPc'[d] # loopPc[d] /\ loopPc[d] # "dial"
                    => connOpts'[Side(Peer(d))] = connOpts[Side(Peer(d))]]_vars

\* Both goroutines have written their pair, and flags of both pairs are set.
C19_Witness ==
    /\ writers["ReadHacks"] = {"client"}
    /\ writers["WriteHacks"] = {"telegram"}
    /\ connOpts.ReadHacks.QuickAck
    /\ connOpts.WriteHacks.SimpleAck


(***************************************************************************)
(* The client initializer client.DirectInit, statement by statement, on    *)
(* one raw socket, and what s.accept does with its result.  The outcome of *)
(* each call into the packages below it is an input.                       *)
(***************************************************************************)
\* const handshakeTimeout = 10 * time.Second
handshakeTimeout == 10

\* Addresses of connecting clients.
Peers == {"203.0.113.5:50000", "203.0.113.9:50001"}

\* What the calls made by DirectInit will answer on this socket.
Frames ==
    [ sockOpt : {"ok", "err"},
      extract : {"ok", "timeout", "truncated"},
      parse : {"ok", "unknown transport"},
      dc : {2, -3},
      transport : {"abridged", "intermediate", "secure"} ]

\* return nil, nil, errors.Annotate(err, ...)
InitFailed(msg) == [stream |-> "nil", opts |-> "nil", err |-> msg]

\* One more call on the raw socket.
Called(name) == [socket EXCEPT !.calls = Append(@, name)]

\* Lines 19-21: config.SetSocketOptions(conn).
DirectSetSocketOptions ==
    /\ initPc = "SetSocketOptions"
    /\ IF frame.sockOpt = "err"
       THEN /\ initRet' = InitFailed("Cannot set socket options")
            /\ initPc' = "returned"
       ELSE /\ initPc' = "SetReadDeadline"
            /\ UNCHANGED initRet
    /\ socket' = Called("SetSocketOptions")
    /\ UNCHANGED <<frame, srvVars, cfgVars, pumpVars>>

\* Line 23: conn.SetReadDeadline(time.Now().Add(handshakeTimeout)).
DirectSetReadDeadline ==
    /\ initPc = "SetReadDeadline"
    /\ socket' = [Called("SetReadDeadline") EXCEPT !.deadline = <<handshakeTimeout>>]
    /\ initPc' = "ExtractFrame"
    /\ UNCHANGED <<frame, initRet, srvVars, cfgVars, pumpVars>>

\* Line 24: frame, err := obfuscated2.ExtractFrame(conn); a read that outlasts
\* the deadline fails.
DirectExtractFrame ==
    /\ initPc = "ExtractFrame"
    /\ frame.extract = "timeout" => socket.deadline # <<>>
    /\ socket' = Called("ExtractFrame")
    /\ initPc' = "ClearReadDeadline"
    /\ UNCHANGED <<frame, initRet, srvVars, cfgVars, pumpVars>>

\* Mutant of DirectClearReadDeadline: the deadline is cleared only after a
\* successful extraction.
DirectClearReadDeadline_OnSuccess ==
    /\ initPc = "ClearReadDeadline"
    /\ socket' = IF frame.extract = "ok"
                 THEN [Called("SetReadDeadline") EXCEPT !.deadline = <<>>]
                 ELSE socket
    /\ initPc' = "CheckFrame"
    /\ UNCHANGED <<frame, initRet, srvVars, cfgVars, pumpVars>>

\* Line 25: conn.SetReadDeadline(time.Time{}), before err is looked at.
DirectClearReadDeadline ==
    /\ initPc = "ClearReadDeadline"
    /\ socket' = [Called("SetReadDeadline") EXCEPT !.deadline = <<>>]
    /\ initPc' = "CheckFrame"
    /\ UNCHANGED <<frame, initRet, srvVars, cfgVars, pumpVars>>

\* Lines 26-28: the error of ExtractFrame.
DirectCheckFrame ==
    /\ initPc = "CheckFrame"
    /\ IF frame.extract # "ok"
       THEN /\ initRet' = InitFailed("Cannot extract frame")
            /\ initPc' = "returned"
       ELSE /\ initPc' = "ParseFrame"
            /\ UNCHANGED initRet
    /\ UNCHANGED <<socket, frame, srvVars, cfgVars, pumpVars>>

\* Lines 30-40: obfuscated2.ParseObfuscated2ClientFrame, then the protocol
\* and the client address of the options, then the wrappers around conn.
DirectParseFrame ==
    /\ initPc = "ParseFrame"
    /\ IF frame.parse # "ok"
       THEN /\ initRet' = InitFailed("Cannot parse obfuscated frame")
            /\ socket' = socket
       ELSE /\ initRet' =
                [stream |-> "StreamCipherRWC(TimeoutRWC(conn))",
                 opts |-> [DC |-> frame.dc, Transport |-> frame.transport,
                           ConnectionProto |-> "Any",
                           ClientAddr |-> socket.peer,
                           ReadHacks |-> NoHacks, WriteHacks |-> NoHacks],
                 err |-> "nil"]
            /\ socket' = Called("RemoteAddr")
    /\ initPc' = "returned"
    /\ UNCHANGED <<frame, srvVars, cfgVars, pumpVars>>

\* part_001 lines 126-129 and 66-73, then the deferred function of lines
\* 47-54: getClientStream returns the error, s.accept logs it and returns,
\* and conn.Close() runs.
AcceptClosesSocket ==
    /\ initPc = "returned"
    /\ initRet.err # "nil"
    /\ socket' = [Called("Close") EXCEPT !.closes = @ + 1]
    /\ initPc' = "closed"
    /\ UNCHANGED <<frame, initRet, srvVars, cfgVars, pumpVars>>

\* part_001 lines 131-135 and 74: getClientStream wraps the stream and
\* s.accept goes on with it.
AcceptKeepsStream ==
    /\ initPc = "returned"
    /\ initRet.err = "nil"
    /\ initPc' = "clientReady"
    /\ UNCHANGED <<socket, frame, initRet, srvVars, cfgVars, pumpVars>>

DirectInit ==
    \/ DirectSetSocketOptions
    \/ DirectSetReadDeadline
    \/ DirectExtractFrame
    \/ DirectClearReadDeadline
    \/ DirectCheckFrame
    \/ DirectParseFrame

ClientInit ==
    /\ SrvInit
    /\ CfgIdle
    /\ PumpIdle
    /\ initPc = "SetSocketOptions"
    /\ frame \in Frames
    /\ socket \in [peer : Peers, deadline : {<<>>}, calls : {<<>>}, closes : {0}]
    /\ initRet = <<>>

ClientNext == DirectInit \/ AcceptClosesSocket \/ AcceptKeepsStream

ClientSpec == ClientInit /\ [][ClientNext]_vars

\* DirectInit has returned.
Returned == initPc \in {"returned", "closed", "clientReady"}
\* A step of DirectInit fails on this socket.
SomeStepFails == frame.sockOpt = "err" \/ frame.extract # "ok" \/ frame.parse # "ok"

(***************************************************************************)
(* C15: DirectInit sets the 10-second read deadline before extracting the  *)
(* frame and clears it right afterwards whether extraction succeeded or    *)
(* failed; when a step fails (socket options, extraction, parsing) it      *)
(* returns no stream and no options and does not close the socket, and     *)
(* the supervisor then closes the raw socket; on success the returned      *)
(* options have protocol Any and the peer address as client address.       *)
(***************************************************************************)
C15_DirectInit ==
    /\ [](/\ initPc = "ExtractFrame" => socket.deadline = <<handshakeTimeout>>
          /\ \A i \in 1..Len(socket.calls) : socket.calls[i] = "ExtractFrame" =>
                /\ i > 1 /\ socket.calls[i - 1] = "SetReadDeadline"
                /\ i < Len(socket.calls) => socket.calls[i + 1] = "SetReadDeadline"
          /\ initPc \notin {"ExtractFrame", "ClearReadDeadline"} => socket.deadline = <<>>
          /\ Returned =>
                /\ SomeStepFails <=> initRet.err # "nil"
                /\ initRet.err # "nil" => initRet.stream = "nil" /\ initRet.opts = "nil"
                /\ initRet.err = "nil" =>
                        /\ initRet.stream # "nil"
                        /\ initRet.opts.ConnectionProto = "Any"
                        /\ initRet.opts.ClientAddr = socket.peer
                        /\ socket.closes = 0
          /\ initPc # "closed" => socket.closes = 0
          /\ initPc = "closed" => socket.closes = 1 /\ initRet.err # "nil")
    /\ [][(initPc = "returned" /\ initRet.err # "nil" /\ initPc' # initPc)
            => (initPc' = "closed" /\ socket'.closes = 1)]_vars

\* Extraction timed out: the deadline is cleared, DirectInit returned the
\* error with no stream and no options, and the supervisor closed the socket.
C15_Witness ==
    /\ initPc = "closed"
    /\ frame.extract = "timeout"
    /\ initRet = InitFailed("Cannot extract frame")
    /\ socket.deadline = <<>>
    /\ socket.closes = 1

====
